---- MODULE Spec2Model ----
(***************************************************************************)
(* Screenkhorn (screening Sinkhorn via dual projection): the constructor   *)
(* Screenkhorn.__init__, the warm start restricted_sinkhorn with its       *)
(* _projection, and the solve driver lbfgsb, for the two source variants   *)
(* code/screenkhornBFGS.py ("bfgs") and new_formulation.py ("new").        *)
(*                                                                         *)
(* Numbers.  The program computes in np.float64.  The model keeps the      *)
(* finite precision but with fewer digits: a number x is the integer       *)
(* round(x * Scale), every arithmetic operation rounds its result to the   *)
(* nearest multiple of 1/Scale, and np.inf is the value Inf.               *)
(***************************************************************************)
EXTENDS Integers, Sequences, FiniteSets, TLC

(***************************************************************************)
(* Bounds of the model.                                                    *)
(***************************************************************************)
MaxCells   == 8     \* the cost matrix is n x m with n, m >= 2 and n * m <= MaxCells
MaxSlope   == 2     \* cost patterns 0..MaxSlope
MaxPattern == 3     \* marginal patterns 0..MaxPattern
MaxIter    == 3     \* max_iter of a direct restricted_sinkhorn call: 0..MaxIter
MaxCalls   == 2     \* successive lbfgsb calls on one instance

(***************************************************************************)
(* Finite-precision arithmetic (np.float64).                               *)
(***************************************************************************)
Scale == 1024
One   == Scale
Inf   == -1         \* np.inf
NaN   == -2         \* np.nan
Unset == -3         \* attribute not assigned (the constructor raised before)

Variants == {"bfgs", "new"}

FAdd(x, y) == IF x = NaN \/ y = NaN THEN NaN
              ELSE IF x = Inf \/ y = Inf THEN Inf
              ELSE x + y

\* x * y, rounded to nearest (computed in two parts to stay within the integers)
FMul(x, y) == IF x = NaN \/ y = NaN THEN NaN
              ELSE IF x = Inf \/ y = Inf
                   THEN (IF x = 0 \/ y = 0 THEN NaN ELSE Inf)
              ELSE (x \div Scale) * y + ((x % Scale) * y + Scale \div 2) \div Scale

\* x / y, rounded to nearest; x / 0 is inf or nan (numpy warns, no exception)
FDiv(x, y) == IF x = NaN \/ y = NaN THEN NaN
              ELSE IF x = Inf THEN (IF y = Inf THEN NaN ELSE Inf)
              ELSE IF y = Inf THEN 0
              ELSE IF y = 0 THEN (IF x = 0 THEN NaN ELSE Inf)
              ELSE (x \div y) * Scale + ((x % y) * Scale + y \div 2) \div y

\* comparisons with nan are False
FGeq(x, y) == IF x = NaN \/ y = NaN THEN FALSE
              ELSE IF x = Inf THEN TRUE
              ELSE IF y = Inf THEN FALSE
              ELSE x >= y
FLeq(x, y) == FGeq(y, x)
FGt(x, y)  == FGeq(x, y) /\ x # y
\* Python's max(x, y): x unless y > x
PyMax(x, y) == IF FGt(y, x) THEN y ELSE x

RECURSIVE ISqrtB(_, _, _)
ISqrtB(k, lo, hi) ==        \* largest r in lo..hi with r*r <= k
    IF lo >= hi THEN lo
    ELSE LET mid == (lo + hi + 1) \div 2
         IN  IF mid * mid <= k THEN ISqrtB(k, mid, hi) ELSE ISqrtB(k, lo, mid - 1)

\* x ** (1/2), rounded to nearest
FSqrt(x) == IF x = NaN \/ x = Inf THEN x
            ELSE LET k == x * Scale
                     r == ISqrtB(k, 0, 46340)
                 IN  IF k - r * r > r THEN r + 1 ELSE r

\* x ** (1/4)
FRoot4(x) == FSqrt(FSqrt(x))

RECURSIVE ExpSeries(_, _, _)
ExpSeries(x, term, k) ==    \* sum of the terms x^k / k! from `term' on
    IF term = 0 THEN 0
    ELSE term + ExpSeries(x, (term * x + (k * Scale) \div 2) \div (k * Scale), k + 1)

\* np.exp(z) for z = x >= 0 and for z = -x
ExpPos(x) == ExpSeries(x, One, 1)
ExpNeg(x) == FDiv(One, ExpPos(x))

(***************************************************************************)
(* Index helpers.  Arrays are functions on 0..len-1 as in the source;      *)
(* index lists (I, J, Ic, Jc) are sequences of indices in ascending order  *)
(* (np.where and range yield them ascending).                              *)
(***************************************************************************)
Range(s) == {s[k] : k \in DOMAIN s}
Size(f)  == Cardinality(DOMAIN f)

RECURSIVE SumTo(_, _)
SumTo(f, k) == IF k < 0 THEN 0 ELSE FAdd(f[k], SumTo(f, k - 1))
Sum(f) == SumTo(f, Size(f) - 1)      \* f on 0..len-1

RECURSIVE SumSeqTo(_, _)
SumSeqTo(s, k) == IF k = 0 THEN 0 ELSE FAdd(s[k], SumSeqTo(s, k - 1))
SumSeq(s) == SumSeqTo(s, Len(s))

RECURSIVE SortedList(_)
SortedList(S) == IF S = {} THEN <<>>
                 ELSE LET x == CHOOSE y \in S : \A z \in S : y <= z
                      IN  <<x>> \o SortedList(S \ {x})

Rank(f, v) == Cardinality({i \in DOMAIN f : f[i] >= v})

\* np.sort(f)[::-1][k-1 : k].mean(): the k-th largest entry, nan for an empty slice
NthLargest(f, k) ==
    IF k < 1 \/ k > Size(f) THEN NaN
    ELSE CHOOSE v \in {f[i] : i \in DOMAIN f} :
            /\ Rank(f, v) >= k
            /\ Cardinality({i \in DOMAIN f : f[i] > v}) < k

\* np.sort(f): ascending
SortAsc(f) == [k \in DOMAIN f |-> NthLargest(f, Size(f) - k)]

MinOf(S) == CHOOSE x \in S : \A y \in S : x <= y

(***************************************************************************)
(* State.                                                                  *)
(***************************************************************************)
VARIABLES
    variant,        \* which source file: "bfgs" or "new"
    a, b, C, reg, N, M,                     \* constructor arguments / self.a ...
    K, I, J, Ic, Jc, epsilon, fact_scale,   \* attributes set by __init__
    bounds_u, bounds_v, cst_u, cst_v,
    vec_eps_IJc, vec_eps_IcJ, a_I, b_J, K_IJ, K_IcJ, K_IJc,
    pc,             \* position of the program
    error,          \* exception raised, "" if none
    caller,         \* who called restricted_sinkhorn: "lbfgsb" or "direct"
    usc, vsc,       \* the u, v buffers of restricted_sinkhorn / lbfgsb
    cpt, max_iter,  \* loop counter and argument of restricted_sinkhorn
    rounds,         \* history: alternating rounds executed by the current call
    optimizer,      \* which deterministic optimizer fmin_l_bfgs_b stands for
    theta,          \* vector returned by fmin_l_bfgs_b in the last lbfgsb call
    result,         \* (usc_full, vsc_full, Psc) returned by the last lbfgsb call
    first,          \* history: result of the first lbfgsb call on this instance
    calls           \* history: completed lbfgsb calls

args    == <<variant, a, b, C, reg, N, M>>
fields  == <<K, I, J, Ic, Jc, epsilon, fact_scale, bounds_u, bounds_v, cst_u, cst_v,
             vec_eps_IJc, vec_eps_IcJ, a_I, b_J, K_IJ, K_IcJ, K_IJc>>
locals  == <<caller, usc, vsc, cpt, max_iter, rounds, theta>>
history == <<result, first, calls>>
vars    == <<args, fields, pc, error, locals, optimizer, history>>

n == Size(C)            \* C.shape[0]
m == Size(C[0])         \* C.shape[1]

(***************************************************************************)
(* Constructor arguments the model draws.                                  *)
(***************************************************************************)
CostUnit == Scale \div 4
Regs     == {One, 2 * One}
NegReg   == 0 - 2 * One
Defects  == {"none", "reg", "N", "M", "a", "len"}

Abs(x) == IF x < 0 THEN 0 - x ELSE x

Dims == {d \in (2..MaxCells) \X (2..MaxCells) : d[1] * d[2] <= MaxCells}

\* cost pattern c: C[i][j] = (|i - j| + ci * i + cj * j) / 4 with ci, cj the bits of c
Cost(nn, mm, c) ==
    [i \in 0..nn-1 |-> [j \in 0..mm-1 |->
        (Abs(i - j) + (c % 2) * i + ((c \div 2) % 2) * j) * CostUnit]]

\* weight pattern p: p = 0 is the uniform marginal
Weight(p, i) == 1 + ((i * p) % 4)

RECURSIVE WeightSum(_, _)
WeightSum(p, k) == IF k < 0 THEN 0 ELSE Weight(p, k) + WeightSum(p, k - 1)

\* a marginal of length len: positive entries that sum to one up to rounding
Marginal(len, p) ==
    [i \in 0..len-1 |-> FDiv(Weight(p, i) * One, WeightSum(p, len - 1) * One)]

\* the input contract of the constructor (reg > 0, N in [1,n], M in [1,m],
\* positive marginals of the lengths of the cost matrix)
ValidArgs ==
    /\ reg > 0
    /\ N \in 1..n /\ M \in 1..m
    /\ Size(a) = n /\ Size(b) = m
    /\ \A i \in DOMAIN a : a[i] > 0
    /\ \A j \in DOMAIN b : b[j] > 0

Init ==
    /\ variant \in Variants
    /\ \E dim \in Dims, c \in 0..MaxSlope, q \in 0..MaxPattern, d \in Defects :
          LET nn == dim[1]
              mm == dim[2]
              pa == q % 3
              pb == (q \div 2) % 3
          IN
          /\ d # "none" => (c = 0 /\ q <= 1)
          /\ C = Cost(nn, mm, c)
          /\ a = IF d = "len" THEN Marginal(nn + 1, pa)
                 ELSE IF d = "a" THEN [Marginal(nn, pa) EXCEPT ![0] = 0]
                 ELSE Marginal(nn, pa)
          /\ b = Marginal(mm, pb)
          /\ reg \in (IF d = "reg" THEN {NegReg} ELSE Regs)
          /\ N \in (IF d = "N" THEN {0, nn + 1} ELSE 1..nn)
          /\ M \in (IF d = "M" THEN {0, mm + 1} ELSE 1..mm)
    /\ K = <<>> /\ I = <<>> /\ J = <<>> /\ Ic = <<>> /\ Jc = <<>>
    /\ epsilon = Unset /\ fact_scale = Unset
    /\ bounds_u = <<>> /\ bounds_v = <<>> /\ cst_u = Unset /\ cst_v = Unset
    /\ vec_eps_IJc = <<>> /\ vec_eps_IcJ = <<>>
    /\ a_I = <<>> /\ b_J = <<>> /\ K_IJ = <<>> /\ K_IcJ = <<>> /\ K_IJc = <<>>
    /\ pc = "new" /\ error = ""
    /\ caller = "" /\ usc = <<>> /\ vsc = <<>> /\ cpt = 0 /\ max_iter = 0
    /\ rounds = 0 /\ optimizer = "" /\ theta = <<>>
    /\ result = <<>> /\ first = <<>> /\ calls = 0

(***************************************************************************)
(* Screenkhorn.__init__                                                    *)
(***************************************************************************)
\* self.K = np.exp(-self.C / self.reg)
Kernel ==
    [i \in 0..n-1 |-> [j \in 0..m-1 |->
        IF reg > 0 THEN ExpNeg(FDiv(C[i][j], reg)) ELSE ExpPos(FDiv(C[i][j], 0 - reg))]]

CtorKernel ==
    /\ pc = "new"
    /\ K' = Kernel
    /\ pc' = "ctor_test"
    /\ UNCHANGED <<args, I, J, Ic, Jc, epsilon, fact_scale, bounds_u, bounds_v,
                   cst_u, cst_v, vec_eps_IJc, vec_eps_IcJ, a_I, b_J, K_IJ, K_IcJ,
                   K_IJc, error, locals, optimizer, history>>

\* the test taken for "or": full mode as soon as one side is unscreened
FullModeBug == N = n \/ M = m

FullMode == N = n /\ M = m

K_sum_cols == [i \in 0..n-1 |-> Sum(K[i])]                               \* K.sum(axis=1)
K_sum_rows == [j \in 0..m-1 |-> Sum([i \in 0..n-1 |-> K[i][j]])]         \* K.T.sum(axis=1)
K_min      == MinOf({K[i][j] : i \in 0..n-1, j \in 0..m-1})              \* K.min()

\* a_sort, b_sort: sorted in screenkhornBFGS.py, the arrays themselves in
\* new_formulation.py (uniform = True is the default)
a_sort == IF variant = "bfgs" THEN SortAsc(a) ELSE a
b_sort == IF variant = "bfgs" THEN SortAsc(b) ELSE b

aK == [i \in 0..n-1 |-> FDiv(a[i], K_sum_cols[i])]       \* a / K_sum_cols
bK == [j \in 0..m-1 |-> FDiv(b[j], K_sum_rows[j])]       \* b / K_sum_rows

epsilon_u_square == NthLargest(aK, N)
epsilon_v_square == NthLargest(bK, M)

\* (epsilon_u_square * epsilon_v_square)**(1/4), (epsilon_v_square / epsilon_u_square)**(1/2)
Epsilon0   == FRoot4(FMul(epsilon_u_square, epsilon_v_square))
FactScale0 == FSqrt(FDiv(epsilon_v_square, epsilon_u_square))

\* the rows selected with the threshold of the columns
SelectIBug(eps, fs) ==
    SortedList({i \in 0..n-1 : FGeq(a[i], FMul(FMul(FMul(eps, eps), fs), K_sum_cols[i]))})

\* np.where(a >= epsilon**2 / fact_scale * K_sum_cols)[0].tolist()
SelectI(eps, fs) ==
    SortedList({i \in 0..n-1 : FGeq(a[i], FMul(FDiv(FMul(eps, eps), fs), K_sum_cols[i]))})
\* np.where(b >= epsilon**2 * fact_scale * K_sum_rows)[0].tolist()
SelectJ(eps, fs) ==
    SortedList({j \in 0..m-1 : FGeq(b[j], FMul(FMul(FMul(eps, eps), fs), K_sum_rows[j]))})

\* no reset of fact_scale
FactScaleKept(fs) == fs

\* fact_scale after the index selection: reset to 1.0 in screenkhornBFGS.py only
FactScaleAfterSelect(fs) == IF variant = "bfgs" THEN One ELSE fs

\* the (lower, upper) pair of bounds_u and of bounds_v
BoundU(eps, fs, II, JJ) ==
    LET ub_v == FDiv(b_sort[JJ[1]], FMul(eps * n, K_min))
        lo   == PyMax(FDiv(FMul(fs, a_sort[II[Len(II)]]),
                           FAdd(eps * (m - Len(JJ)), Len(JJ) * ub_v)),
                      FDiv(eps, fs))
        hi   == FDiv(a_sort[II[1]], FMul(eps * m, K_min))
    IN  <<lo, hi>>
BoundV(eps, fs, II, JJ) ==
    LET ub_u == FDiv(a_sort[II[1]], FMul(eps * m, K_min))
        lo   == PyMax(FDiv(b_sort[JJ[Len(JJ)]],
                           FAdd(eps * (n - Len(II)), Len(II) * ub_u)),
                      FMul(eps, fs))
        hi   == FDiv(b_sort[JJ[1]], FMul(eps * n, K_min))
    IN  <<lo, hi>>

Repeat(x, len) == [k \in 1..len |-> x]         \* [x] * len

\* lines 44-106: the test N == n and M == m and its two branches
CtorSelect ==
    /\ pc = "ctor_test"
    /\ IF FullMode
       THEN /\ I' = SortedList(0..n-1)
            /\ J' = SortedList(0..m-1)
            /\ epsilon' = 0
            /\ fact_scale' = One
            /\ cst_u' = 0
            /\ cst_v' = 0
            /\ bounds_u' = Repeat(<<0, Inf>>, n)
            /\ bounds_v' = Repeat(<<0, Inf>>, m)
            /\ pc' = "ctor_asm"
            /\ error' = ""
       ELSE IF Size(a) # n \/ Size(b) # m
       THEN \* a / K_sum_cols: operands could not be broadcast together
            /\ pc' = "failed"
            /\ error' = "ValueError"
            /\ UNCHANGED <<I, J, epsilon, fact_scale, cst_u, cst_v, bounds_u, bounds_v>>
       ELSE LET eps == Epsilon0
                fs0 == FactScale0
                II  == SelectI(eps, fs0)
                JJ  == SelectJ(eps, fs0)
                fs  == FactScaleAfterSelect(fs0)
            IN  /\ epsilon' = eps
                /\ fact_scale' = fs
                /\ I' = II
                /\ J' = JJ
                /\ UNCHANGED <<cst_u, cst_v>>
                /\ IF II = <<>> \/ JJ = <<>>
                   THEN \* a_sort[self.I][-1] or b_sort[self.J][0] of an empty array
                        /\ pc' = "failed"
                        /\ error' = "IndexError"
                        /\ UNCHANGED <<bounds_u, bounds_v>>
                   ELSE /\ bounds_u' = Repeat(BoundU(eps, fs, II, JJ), Len(II))
                        /\ bounds_v' = Repeat(BoundV(eps, fs, II, JJ), Len(JJ))
                        /\ pc' = "ctor_asm"
                        /\ error' = ""
    /\ UNCHANGED <<args, K, Ic, Jc, vec_eps_IJc, vec_eps_IcJ, a_I, b_J, K_IJ, K_IcJ,
                   K_IJc, locals, optimizer, history>>

\* the complement taken in range(len - 1)
ComplementBug(len, L) == SortedList((0..len-2) \ Range(L))

\* list(set(range(len)) - set(L))
Complement(len, L) == SortedList((0..len-1) \ Range(L))

Take(f, L) == [k \in 1..Len(L) |-> f[L[k]]]                              \* f[L]
Block(R, L) == [k \in 1..Len(R) |-> [l \in 1..Len(L) |-> K[R[k]][L[l]]]]  \* K[np.ix_(R, L)]

RowSums(B) == [k \in 1..Len(B) |-> SumSeq(B[k])]                         \* B.sum(axis=1)
\* B.sum(axis=0) of a block with len columns (zeros when the block has no row)
ColSums(B, len) == [l \in 1..len |-> SumSeq([k \in 1..Len(B) |-> B[k][l]])]

\* lines 108-140: complements, slices, correction vectors, Sinkhorn constants
CtorAssemble ==
    /\ pc = "ctor_asm"
    /\ LET IIc  == Complement(n, I)
           JJc  == Complement(m, J)
           KIcJ == Block(IIc, J)
           KIJc == Block(I, JJc)
       IN  /\ Ic' = IIc
           /\ Jc' = JJc
           /\ a_I' = Take(a, I)
           /\ b_J' = Take(b, J)
           /\ K_IJ' = Block(I, J)
           /\ K_IcJ' = KIcJ
           /\ K_IJc' = KIJc
           /\ vec_eps_IJc' = [k \in 1..Len(I) |->
                                FMul(FMul(epsilon, fact_scale), RowSums(KIJc)[k])]
           /\ vec_eps_IcJ' = [l \in 1..Len(J) |->
                                FMul(FDiv(epsilon, fact_scale), ColSums(KIcJ, Len(J))[l])]
           /\ IF N # n \/ M # m
              THEN /\ cst_u' = [k \in 1..Len(I) |->
                                  FMul(FMul(fact_scale, epsilon), RowSums(KIJc)[k])]
                   /\ cst_v' = [l \in 1..Len(J) |->
                                  FDiv(FMul(epsilon, ColSums(KIcJ, Len(J))[l]), fact_scale)]
              ELSE UNCHANGED <<cst_u, cst_v>>
    /\ pc' = "ready"
    /\ UNCHANGED <<args, K, I, J, epsilon, fact_scale, bounds_u, bounds_v, error,
                   locals, optimizer, history>>

(***************************************************************************)
(* _projection and restricted_sinkhorn                                     *)
(***************************************************************************)
\* the comparison of the projection reversed
ProjectionBug(u, eps) == [k \in 1..Len(u) |-> IF FGeq(u[k], eps) THEN eps ELSE u[k]]

\* u[np.where(u <= epsilon)] = epsilon
Projection(u, eps) == [k \in 1..Len(u) |-> IF FLeq(u[k], eps) THEN eps ELSE u[k]]

\* cst_u, cst_v are the scalar 0. in full mode and arrays otherwise
CstAt(c, k) == IF FullMode THEN c ELSE c[k]

\* K_IJ.T @ u and K_IJ @ v
KT_u(u) == [l \in 1..Len(J) |-> SumSeq([k \in 1..Len(I) |-> FMul(K_IJ[k][l], u[k])])]
K_v(v)  == [k \in 1..Len(I) |-> SumSeq([l \in 1..Len(J) |-> FMul(K_IJ[k][l], v[l])])]

\* vsc = b_J / (fact_scale * (K_IJ.T @ usc + cst_v))
UpdateV(u) ==
    [l \in 1..Len(J) |->
        FDiv(b_J[l], FMul(fact_scale, FAdd(KT_u(u)[l], CstAt(cst_v, l))))]
\* usc = (fact_scale * a_I) / (K_IJ @ vsc + cst_u)
UpdateU(v) ==
    [k \in 1..Len(I) |->
        FDiv(FMul(fact_scale, a_I[k]), FAdd(K_v(v)[k], CstAt(cst_u, k)))]

\* cpt = 1 on entry
Enter(who, u, v, mi) ==
    /\ caller' = who
    /\ usc' = u
    /\ vsc' = v
    /\ max_iter' = mi
    /\ cpt' = 1
    /\ rounds' = 0
    /\ pc' = "rs_loop"

\* the loop test with <= in place of <
LoopCondBug == cpt <= max_iter

\* while (cpt < max_iter)
LoopCond == cpt < max_iter

\* one pass of the loop body
RSRound ==
    /\ pc = "rs_loop"
    /\ LoopCond
    /\ LET v == UpdateV(usc)
       IN  /\ vsc' = v
           /\ usc' = UpdateU(v)
    /\ cpt' = cpt + 1
    /\ rounds' = rounds + 1
    /\ UNCHANGED <<args, fields, pc, error, caller, max_iter, theta, optimizer, history>>

\* the projection of vsc left out
RSProjectBug ==
    /\ pc = "rs_loop"
    /\ ~LoopCond
    /\ usc' = Projection(usc, FDiv(epsilon, fact_scale))
    /\ pc' = "rs_ret"
    /\ UNCHANGED <<args, fields, error, caller, vsc, cpt, max_iter, rounds, theta,
                   optimizer, history>>

\* loop exit, the two projections and the return
RSProject ==
    /\ pc = "rs_loop"
    /\ ~LoopCond
    /\ usc' = Projection(usc, FDiv(epsilon, fact_scale))
    /\ vsc' = Projection(vsc, FMul(epsilon, fact_scale))
    /\ pc' = "rs_ret"
    /\ UNCHANGED <<args, fields, error, caller, cpt, max_iter, rounds, theta,
                   optimizer, history>>

(***************************************************************************)
(* A caller of restricted_sinkhorn other than lbfgsb: any usc, vsc of the  *)
(* lengths of I and J, any max_iter.                                       *)
(***************************************************************************)
DirectVals == {0, One \div 8, 4 * One}
Pattern(x, y, len) == [k \in 1..len |-> IF k % 2 = 1 THEN x ELSE y]

DirectCall ==
    /\ pc = "ready"
    /\ \E x \in DirectVals, y \in DirectVals, mi \in 0..MaxIter :
          Enter("direct", Pattern(x, y, Len(I)), Pattern(y, x, Len(J)), mi)
    /\ UNCHANGED <<args, fields, error, theta, optimizer, history>>

\* the frame of restricted_sinkhorn / lbfgsb is gone after the return
Leave ==
    /\ caller' = ""
    /\ usc' = <<>>
    /\ vsc' = <<>>
    /\ cpt' = 0
    /\ max_iter' = 0
    /\ rounds' = 0
    /\ pc' = "ready"

DirectReturn ==
    /\ pc = "rs_ret"
    /\ caller = "direct"
    /\ Leave
    /\ UNCHANGED <<args, fields, error, theta, optimizer, history>>

(***************************************************************************)
(* lbfgsb                                                                  *)
(***************************************************************************)
\* max_iter of the warm start: 3 in screenkhornBFGS.py, 10 in new_formulation.py
WarmStartIter == IF variant = "bfgs" THEN 3 ELSE 10

\* a starting vector that depends on the number of earlier calls
u0Bug == [k \in 1..Len(I) |->
            FAdd(FAdd(FDiv(One, Len(I) * One), FDiv(epsilon, fact_scale)), calls * One)]

\* np.full(len(I), 1/len(I) + epsilon/fact_scale), np.full(len(J), 1/len(J) + epsilon*fact_scale)
u0 == Repeat(FAdd(FDiv(One, Len(I) * One), FDiv(epsilon, fact_scale)), Len(I))
v0 == Repeat(FAdd(FDiv(One, Len(J) * One), FMul(epsilon, fact_scale)), Len(J))

LbfgsbCall ==
    /\ pc = "ready"
    /\ calls < MaxCalls
    /\ Enter("lbfgsb", u0, v0, WarmStartIter)
    /\ UNCHANGED <<args, fields, error, theta, optimizer, history>>

\* theta0 = np.hstack([u, v]); bounds = self.bounds_u + self.bounds_v
theta0 == usc \o vsc
bounds == bounds_u \o bounds_v

(***************************************************************************)
(* fmin_l_bfgs_b is external.  Its contract: the point it returns lies     *)
(* within the bounds.  The model lets it stand for one of two              *)
(* deterministic optimizers: "project" stops at the starting point clipped *)
(* to the box, "shift" moves coordinate k by k/16 and clips.               *)
(* With a lower bound above an upper bound the                             *)
(* routine either raises ValueError ("raise") or gives up and returns the  *)
(* starting point ("giveup"), depending on its version.                    *)
(***************************************************************************)
Feasible(bnds) == \A k \in 1..Len(bnds) : FLeq(bnds[k][1], bnds[k][2])

Optimizers(bnds) == IF Feasible(bnds) THEN {"project", "shift"}
                    ELSE {"raise", "giveup"}

Clip(x, lo, hi) == IF FLeq(x, lo) THEN lo ELSE IF FGeq(x, hi) THEN hi ELSE x

Minimize(opt, x0, bnds) ==
    [k \in 1..Len(x0) |->
        CASE opt = "project" -> Clip(x0[k], bnds[k][1], bnds[k][2])
          [] opt = "shift"   -> Clip(FAdd(x0[k], k * (One \div 16)), bnds[k][1], bnds[k][2])
          [] OTHER           -> x0[k]]

LbfgsbOptimize ==
    /\ pc = "rs_ret"
    /\ caller = "lbfgsb"
    /\ optimizer' \in (IF optimizer = "" THEN Optimizers(bounds) ELSE {optimizer})
    /\ IF optimizer' = "raise"
       THEN /\ pc' = "raised"
            /\ error' = "ValueError"
            /\ UNCHANGED theta
       ELSE /\ theta' = Minimize(optimizer', theta0, bounds)
            /\ pc' = "opt_ret"
            /\ UNCHANGED error
    /\ UNCHANGED <<args, fields, caller, usc, vsc, cpt, max_iter, rounds, history>>

\* base = np.full(len, fill); base[L] = vals
FillAt(len, fill, L, vals) ==
    [i \in 0..len-1 |->
        IF i \in Range(L) THEN vals[CHOOSE k \in 1..Len(L) : L[k] = i] ELSE fill]

\* the fill values of the inactive rows and columns exchanged
ReconstructBug(th) ==
    LET u_act    == SubSeq(th, 1, Len(I))
        v_act    == SubSeq(th, Len(I) + 1, Len(th))
        usc_full == FillAt(n, FMul(epsilon, fact_scale), I, u_act)
        vsc_full == FillAt(m, FDiv(epsilon, fact_scale), J, v_act)
        Psc      == [i \in 0..n-1 |-> [j \in 0..m-1 |->
                        FMul(FMul(usc_full[i], K[i][j]), vsc_full[j])]]
    IN  <<usc_full, vsc_full, Psc>>

\* lines 222-231: split theta, expand to full length, form the plan
Reconstruct(th) ==
    LET u_act    == SubSeq(th, 1, Len(I))
        v_act    == SubSeq(th, Len(I) + 1, Len(th))
        usc_full == FillAt(n, FDiv(epsilon, fact_scale), I, u_act)
        vsc_full == FillAt(m, FMul(epsilon, fact_scale), J, v_act)
        Psc      == [i \in 0..n-1 |-> [j \in 0..m-1 |->
                        FMul(FMul(usc_full[i], K[i][j]), vsc_full[j])]]
    IN  <<usc_full, vsc_full, Psc>>

LbfgsbReturn ==
    /\ pc = "opt_ret"
    /\ result' = Reconstruct(theta)
    /\ first' = IF calls = 0 THEN result' ELSE first
    /\ calls' = calls + 1
    /\ Leave
    /\ UNCHANGED <<args, fields, error, theta, optimizer>>

(***************************************************************************)
(* Specifications.  Spec: construction followed by lbfgsb calls.           *)
(* SpecRS: construction from valid arguments followed by direct calls of   *)
(* restricted_sinkhorn.                                                    *)
(***************************************************************************)
Next ==
    \/ CtorKernel
    \/ CtorSelect
    \/ CtorAssemble
    \/ LbfgsbCall
    \/ RSRound
    \/ RSProject
    \/ LbfgsbOptimize
    \/ LbfgsbReturn

Spec == Init /\ [][Next]_vars

InitRS == Init /\ ValidArgs

NextRS ==
    \/ CtorKernel
    \/ CtorSelect
    \/ CtorAssemble
    \/ DirectCall
    \/ RSRound
    \/ RSProject
    \/ DirectReturn

SpecRS == InitRS /\ [][NextRS]_vars

(***************************************************************************)
(* Properties.                                                             *)
(***************************************************************************)
\* __init__ has returned an instance (no exception)
Constructed == pc \in {"ready", "rs_loop", "rs_ret", "opt_ret", "raised"}

NoDup(L) == \A k, l \in 1..Len(L) : L[k] = L[l] => k = l

\* C1: after construction from valid arguments, in full and in screening
\* mode, I and Ic are disjoint and together are exactly 0..n-1, and J and Jc
\* are disjoint and together are exactly 0..m-1.
C1_Partition ==
    (Constructed /\ ValidArgs) =>
        /\ Range(I) \cap Range(Ic) = {}
        /\ Range(I) \cup Range(Ic) = 0..n-1
        /\ Range(J) \cap Range(Jc) = {}
        /\ Range(J) \cup Range(Jc) = 0..m-1
        /\ NoDup(I) /\ NoDup(Ic) /\ NoDup(J) /\ NoDup(Jc)

C1_Witness ==
    Constructed /\ ValidArgs /\ Ic # <<>> /\ Jc # <<>> /\ Len(I) > 1

\* C2: with N = n and M = m the instance has I = 0..n-1, J = 0..m-1, empty
\* Ic and Jc, epsilon = 0, fact_scale = 1, every bound (0, +inf), cst_u =
\* cst_v = 0 and zero correction vectors; in every other case the screening
\* branch is taken (epsilon is the threshold derived from the ratios) and
\* cst_u, cst_v are computed from the inactive blocks of K.
C2_Modes ==
    Constructed =>
        IF N = n /\ M = m
        THEN /\ I = [k \in 1..n |-> k - 1]
             /\ J = [l \in 1..m |-> l - 1]
             /\ Ic = <<>> /\ Jc = <<>>
             /\ epsilon = 0
             /\ fact_scale = One
             /\ Len(bounds_u) = n /\ \A k \in 1..n : bounds_u[k] = <<0, Inf>>
             /\ Len(bounds_v) = m /\ \A l \in 1..m : bounds_v[l] = <<0, Inf>>
             /\ cst_u = 0 /\ cst_v = 0
             /\ Len(vec_eps_IJc) = n /\ \A k \in 1..n : vec_eps_IJc[k] = 0
             /\ Len(vec_eps_IcJ) = m /\ \A l \in 1..m : vec_eps_IcJ[l] = 0
        ELSE /\ epsilon = Epsilon0
             /\ cst_u = [k \in 1..Len(I) |->
                          FMul(FMul(fact_scale, epsilon),
                               SumSeq([l \in 1..Len(Jc) |-> K[I[k]][Jc[l]]]))]
             /\ cst_v = [l \in 1..Len(J) |->
                          FDiv(FMul(epsilon,
                                    SumSeq([k \in 1..Len(Ic) |-> K[Ic[k]][J[l]]])),
                               fact_scale)]

C2_Witness ==
    Constructed /\ ValidArgs /\ N = n /\ M = m /\ cst_u = 0 /\ epsilon = 0

\* C3: lbfgsb returns u_full of length n and v_full of length m where
\* u_full[i] is theta[k] for the k-th index i of I and epsilon/fact_scale for
\* i in Ic, v_full[j] is theta[|I|+k] for the k-th index j of J and
\* epsilon*fact_scale for j in Jc, and P is n x m with
\* P[i,j] = u_full[i] * K[i,j] * v_full[j].
C3_Reconstruction ==
    (pc = "ready" /\ calls > 0) =>
        LET u_full == result[1]
            v_full == result[2]
            P      == result[3]
        IN  /\ DOMAIN u_full = 0..n-1
            /\ DOMAIN v_full = 0..m-1
            /\ Len(theta) = Len(I) + Len(J)
            /\ \A k \in 1..Len(I) : u_full[I[k]] = theta[k]
            /\ \A i \in Range(Ic) : u_full[i] = FDiv(epsilon, fact_scale)
            /\ \A l \in 1..Len(J) : v_full[J[l]] = theta[Len(I) + l]
            /\ \A j \in Range(Jc) : v_full[j] = FMul(epsilon, fact_scale)
            /\ DOMAIN P = 0..n-1
            /\ \A i \in 0..n-1 :
                  /\ DOMAIN P[i] = 0..m-1
                  /\ \A j \in 0..m-1 :
                        P[i][j] = FMul(FMul(u_full[i], K[i][j]), v_full[j])

C3_Witness ==
    /\ pc = "ready" /\ calls > 0 /\ ValidArgs
    /\ Ic # <<>> /\ Jc # <<>> /\ Len(I) > 1
    /\ FDiv(epsilon, fact_scale) # FMul(epsilon, fact_scale)
    /\ theta[1] # theta[2]

RatiosDistinct(f) == \A i, k \in DOMAIN f : f[i] = f[k] => i = k

\* C4 (as stated): in screening mode I is exactly the set of rows whose ratio
\* a[i]/K_sum_cols[i] is >= the N-th largest ratio (so exactly N rows when
\* the ratios are pairwise distinct), and J is the set of columns whose
\* ratio b[j]/K_sum_rows[j] is >= the M-th largest.
C4_Original ==
    (Constructed /\ ValidArgs /\ ~(N = n /\ M = m)) =>
        /\ Range(I) = {i \in 0..n-1 : aK[i] >= epsilon_u_square}
        /\ Range(J) = {j \in 0..m-1 : bK[j] >= epsilon_v_square}
        /\ RatiosDistinct(aK) => Len(I) = N
        /\ RatiosDistinct(bK) => Len(J) = M

\* distance (in units of 1/Scale) within which the computed threshold
\* epsilon**2 / fact_scale and the N-th largest ratio agree
RoundTol == Scale \div 256

\* C4 (amended): in screening mode I is the set of rows with
\* a[i] >= t_u * K_sum_cols[i] for the computed threshold
\* t_u = epsilon**2 / fact_scale, and J the set of columns with
\* b[j] >= t_v * K_sum_rows[j] for t_v = epsilon**2 * fact_scale; the
\* thresholds equal the N-th / M-th largest ratio only up to rounding, so
\* every row (column) whose ratio exceeds the N-th (M-th) largest ratio by
\* more than the rounding error is selected and none whose ratio is below it
\* by more than the rounding error is.
C4_Amended ==
    (Constructed /\ ValidArgs /\ ~(N = n /\ M = m)) =>
        LET ru  == [i \in 0..n-1 |-> aK[i]]
            rv  == [j \in 0..m-1 |-> bK[j]]
            eu  == NthLargest(ru, N)
            ev  == NthLargest(rv, M)
            fs  == FSqrt(FDiv(ev, eu))
            e2  == FMul(epsilon, epsilon)
            t_u == FDiv(e2, fs)
            t_v == FMul(e2, fs)
            SI  == Range(I)
            SJ  == Range(J)
        IN  /\ SI = {i \in 0..n-1 : FGeq(a[i], FMul(t_u, K_sum_cols[i]))}
            /\ SJ = {j \in 0..m-1 : FGeq(b[j], FMul(t_v, K_sum_rows[j]))}
            /\ \A i \in 0..n-1 : ru[i] >= eu + RoundTol => i \in SI
            /\ \A i \in SI : ru[i] + RoundTol >= eu
            /\ \A j \in 0..m-1 : rv[j] >= ev + RoundTol => j \in SJ
            /\ \A j \in SJ : rv[j] + RoundTol >= ev

\* pairwise distinct ratios, yet the number of selected rows is not N
C4_Witness ==
    /\ Constructed /\ ValidArgs /\ ~(N = n /\ M = m)
    /\ RatiosDistinct(aK)
    /\ Len(I) # N
    /\ Ic # <<>>

\* C5: the vectors returned by restricted_sinkhorn have every u coordinate
\* >= epsilon/fact_scale and every v coordinate >= epsilon*fact_scale, for any
\* usc, vsc and max_iter: the final projection raises the coordinates at or
\* below the floor to the floor and leaves the others unchanged.
C5_WarmStartFloors ==
    /\ [](pc = "rs_ret" =>
            /\ \A k \in 1..Len(usc) : FGeq(usc[k], FDiv(epsilon, fact_scale))
            /\ \A l \in 1..Len(vsc) : FGeq(vsc[l], FMul(epsilon, fact_scale)))
    /\ [][(pc = "rs_loop" /\ pc' = "rs_ret") =>
            /\ Len(usc') = Len(usc) /\ Len(vsc') = Len(vsc)
            /\ \A k \in 1..Len(usc) :
                  usc'[k] = IF FLeq(usc[k], FDiv(epsilon, fact_scale))
                            THEN FDiv(epsilon, fact_scale) ELSE usc[k]
            /\ \A l \in 1..Len(vsc) :
                  vsc'[l] = IF FLeq(vsc[l], FMul(epsilon, fact_scale))
                            THEN FMul(epsilon, fact_scale) ELSE vsc[l]]_vars

\* a returned u with one coordinate raised to a positive floor and one above it
C5_Witness ==
    /\ pc = "rs_ret" /\ caller = "direct" /\ epsilon > 0 /\ rounds > 0
    /\ \E k \in 1..Len(usc) : usc[k] = FDiv(epsilon, fact_scale)
    /\ \E k \in 1..Len(usc) : FGt(usc[k], FDiv(epsilon, fact_scale))

\* C6 (as stated): an invalid configuration (reg <= 0, N or M out of range,
\* a non-positive marginal entry, a marginal of the wrong length) is detected
\* before any derived quantity is computed and ends in an error, never in a
\* constructed instance.
C6_Claim ==
    ~ValidArgs =>
        /\ pc \in {"new", "failed"}
        /\ K = <<>> /\ I = <<>> /\ J = <<>>
        /\ epsilon = Unset
        /\ bounds_u = <<>> /\ bounds_v = <<>>

\* C7 (as stated): in both source variants fact_scale is 1 in every state
\* after construction, in every mode.
C7_Original == Constructed => fact_scale = One

\* C7 (amended): screenkhornBFGS.py resets fact_scale to 1.0 right after the
\* selection of I and J, so there fact_scale = 1 after construction in every
\* mode and the box bounds are those computed with fact_scale = 1;
\* new_formulation.py has no reset: in screening mode fact_scale remains
\* (epsilon_v_square / epsilon_u_square)**(1/2), and is 1 only in full mode.
C7_Amended ==
    Constructed =>
        /\ (variant = "bfgs" \/ (N = n /\ M = m)) => fact_scale = One
        /\ (variant = "bfgs" /\ ~(N = n /\ M = m)) =>
              /\ bounds_u = [k \in 1..Len(I) |-> BoundU(epsilon, One, I, J)]
              /\ bounds_v = [l \in 1..Len(J) |-> BoundV(epsilon, One, I, J)]
        /\ (variant = "new" /\ ~(N = n /\ M = m)) =>
              fact_scale = FSqrt(FDiv(epsilon_v_square, epsilon_u_square))

\* screenkhornBFGS.py, screening mode, and the reset changed the value
C7_Witness ==
    /\ Constructed /\ ValidArgs /\ variant = "bfgs" /\ ~(N = n /\ M = m)
    /\ FactScale0 # One
    /\ fact_scale = One

\* C8 (as stated): restricted_sinkhorn(usc, vsc, max_iter=k) performs exactly
\* k rounds: lbfgsb performs 3 rounds in screenkhornBFGS.py and 10 rounds in
\* new_formulation.py before the projection.
C8_Original ==
    (pc = "rs_ret" /\ caller = "lbfgsb") =>
        /\ rounds = max_iter
        /\ rounds = (IF variant = "bfgs" THEN 3 ELSE 10)

\* C8 (amended): the warm start terminates after a fixed number of rounds:
\* restricted_sinkhorn(usc, vsc, max_iter=k) performs exactly k - 1 rounds
\* (none when k <= 1), each round first updating v from the current u and
\* then u from the new v; lbfgsb performs 2 rounds in screenkhornBFGS.py and
\* 9 rounds in new_formulation.py before the single projection step.
C8_Amended ==
    /\ [](pc = "rs_ret" =>
            /\ rounds = (IF max_iter > 1 THEN max_iter - 1 ELSE 0)
            /\ caller = "lbfgsb" => rounds = (IF variant = "bfgs" THEN 2 ELSE 9))
    /\ [][(pc = "rs_loop" /\ pc' = "rs_loop") =>
            /\ rounds' = rounds + 1
            /\ vsc' = UpdateV(usc)
            /\ usc' = UpdateU(vsc')]_vars

C8_Witness ==
    pc = "rs_ret" /\ caller = "lbfgsb" /\ variant = "new" /\ rounds = 9 /\ max_iter = 10

\* C9 (as stated): the starting point theta0 that lbfgsb hands to the
\* optimizer has every u coordinate >= the lower bound in bounds_u and every
\* v coordinate >= the lower bound in bounds_v, for every valid input.
C9_Original ==
    (pc = "rs_ret" /\ caller = "lbfgsb" /\ ValidArgs) =>
        \A k \in 1..Len(theta0) : FGeq(theta0[k], bounds[k][1])

\* C9 (amended): theta0 has every u coordinate >= epsilon/fact_scale and
\* every v coordinate >= epsilon*fact_scale, the floors of the projection.
\* The lower bounds in bounds_u, bounds_v are never below these floors; they
\* are equal to them in full mode (0), where theta0 is at or above the lower
\* bounds, but may be larger in screening mode, where theta0 may lie below
\* the box lower bound.
C9_Amended ==
    (pc = "rs_ret" /\ caller = "lbfgsb" /\ ValidArgs) =>
        /\ Len(theta0) = Len(bounds)
        /\ \A k \in 1..Len(I) :
              /\ FGeq(theta0[k], FDiv(epsilon, fact_scale))
              /\ FGeq(bounds_u[k][1], FDiv(epsilon, fact_scale))
        /\ \A l \in 1..Len(J) :
              /\ FGeq(theta0[Len(I) + l], FMul(epsilon, fact_scale))
              /\ FGeq(bounds_v[l][1], FMul(epsilon, fact_scale))
        /\ (N = n /\ M = m) =>
              \A k \in 1..Len(theta0) : FGeq(theta0[k], bounds[k][1])

\* a starting point at the projection floor and below the box lower bound
C9_Witness ==
    /\ pc = "rs_ret" /\ caller = "lbfgsb" /\ ValidArgs
    /\ \E l \in 1..Len(J) :
          /\ theta0[Len(I) + l] = FMul(epsilon, fact_scale)
          /\ FGt(bounds_v[l][1], theta0[Len(I) + l])

\* C10: a call of lbfgsb leaves every attribute computed at construction
\* unchanged, and with a deterministic optimizer successive calls on the same
\* instance return the same (u_full, v_full, P).
C10_Frame ==
    /\ [][Constructed => (fields' = fields /\ args' = args)]_vars
    /\ []((pc = "ready" /\ calls >= 1) => result = first)

C10_Witness ==
    /\ pc = "ready" /\ calls = 2 /\ ValidArgs /\ ~(N = n /\ M = m)
    /\ result = first
    /\ optimizer = "shift"

====
